---- MODULE Spec2Model ----
(***************************************************************************)
(* State-machine model of the Book API client:                             *)
(*   source/client_api/config.py       ClientAPIConfig.from_env            *)
(*   source/client_api/book_client.py  BookClient                          *)
(* Strings that the code strips or concatenates (base URLs, endpoint       *)
(* paths) are sequences of symbols; "/" is the slash, every other symbol   *)
(* is a slash-free run of characters.  Optional[str] values are records    *)
(* [some, val].  The remote server is outside the repository: its answer   *)
(* to a request (status and body, or no answer at all) is an input.        *)
(***************************************************************************)
EXTENDS Integers, Sequences, FiniteSets, TLC

VARIABLES environ, books, sessions, clients, last

vars == <<environ, books, sessions, clients, last>>

(* ------------------------------ bounds --------------------------------- *)

\* longest base-URL string passed explicitly or set in CLIENT_API_URL_BASE
MaxLen == 3
\* longest JSON list the collection endpoint answers with
MaxBooks == 2
\* book ids are 1..MaxId
MaxId == 2

(* --------------------------- Python values ----------------------------- *)

Chars == {"a", "/"}

Strings == UNION {[1..k -> Chars] : k \in 0..MaxLen}

\* Optional[str] holding a symbol sequence (a URL)
NoneUrl == [some |-> FALSE, val |-> <<>>]
SomeUrl(s) == [some |-> TRUE, val |-> s]
OptUrls == {NoneUrl} \cup {SomeUrl(s) : s \in Strings}

\* Optional[str] holding a file-system path
NonePath == [some |-> FALSE, val |-> ""]
SomePath(p) == [some |-> TRUE, val |-> p]
Paths == {"", "/etc/ca.pem", "/missing.pem"}
OptPaths == {NonePath} \cup {SomePath(p) : p \in Paths}

\* the CA bundle files that exist on the machine
ExistingPaths == {"/etc/ca.pem"}

\* truth value of an Optional[str] path: None and "" are falsy
Truthy(o) == o.some /\ o.val # ""

\* Python's  a or b
PyOr(a, b) == IF Truthy(a) THEN a ELSE b

\* a normalisation that drops one trailing slash only
rstrip_once(s) ==
    IF s # <<>> /\ s[Len(s)] = "/" THEN SubSeq(s, 1, Len(s) - 1) ELSE s

RECURSIVE rstrip(_)
\* str.rstrip('/'): drops every trailing slash
rstrip(s) ==
    IF s # <<>> /\ s[Len(s)] = "/" THEN rstrip(SubSeq(s, 1, Len(s) - 1)) ELSE s

RECURSIVE lstrip(_)
\* str.lstrip('/'): drops every leading slash
lstrip(s) ==
    IF s # <<>> /\ s[1] = "/" THEN lstrip(Tail(s)) ELSE s

EndsWithSlash(s) == s # <<>> /\ s[Len(s)] = "/"

(* ----------------------------- config.py ------------------------------- *)

DefaultUrlBase == <<"https:", "/", "/", "fakerestapi.azurewebsites.net">>

\* os.getenv(name, default) on CLIENT_API_URL_BASE
getenv_url(env, default) ==
    IF env.CLIENT_API_URL_BASE.some THEN env.CLIENT_API_URL_BASE.val ELSE default

\* a resolver that treats an empty argument as absent (if not url_base)
from_env_choice_falsy(url_base, env) ==
    IF ~url_base.some \/ url_base.val = <<>>
    THEN getenv_url(env, DefaultUrlBase) ELSE url_base.val

\* the string from_env picks before normalising it
from_env_choice(url_base, env) ==
    IF ~url_base.some THEN getenv_url(env, DefaultUrlBase) ELSE url_base.val

\* ClientAPIConfig.from_env(url_base): the url_base field of the new config
from_env(url_base, env) == rstrip(from_env_choice(url_base, env))

(* ------------------------- transport and server ------------------------ *)

ClientIds == {1, 2}

\* the session the test harness builds and hands to the client
InjectedSession == "http_session"

\* the requests.Session() a client builds for itself when none is supplied
DefaultSession(c) == IF c = 1 THEN "default_session_1" ELSE "default_session_2"

SessionIds == {InjectedSession} \cup {DefaultSession(c) : c \in ClientIds}

\* the module-level requests.get/post/put/delete functions: not a session of
\* any client
RequestsApi == "requests_api"

\* values of Session.verify: True (the library default), False, or a CA path
VerifyTrue == [check |-> TRUE, bundle |-> ""]
VerifyFalse == [check |-> FALSE, bundle |-> ""]
VerifyBundle(p) == [check |-> TRUE, bundle |-> p]

Ids == 1..MaxId

StatusCodes == {200, 201, 204, 304, 400, 404, 500}

\* elements of a JSON list: book objects with or without an "id" key, numbers
Elems ==
    {[kind |-> "object", hasId |-> TRUE, id |-> i] : i \in Ids}
        \cup {[kind |-> "object", hasId |-> FALSE, id |-> 0],
              [kind |-> "number", hasId |-> FALSE, id |-> 0]}

\* a response body: a JSON value, or text that is not JSON ("invalid").
\* defs tells, for an object, whether it has a "definitions" key and whether
\* that holds a "Book" entry.
Json(t, items, defs) == [type |-> t, items |-> items, defs |-> defs]

JsonNull == Json("null", <<>>, "absent")

ListBodies ==
    {Json("list", s, "absent") : s \in UNION {[1..k -> Elems] : k \in 0..MaxBooks}}

SchemaBodies == {Json("object", <<>>, d) : d \in {"absent", "noBook", "Book"}}

NonListBodies ==
    SchemaBodies \cup {JsonNull, Json("number", <<>>, "absent"), Json("string", <<>>, "absent")}

NotJson == Json("invalid", <<>>, "absent")

\* the server's answer to one request; answered = FALSE is a transport failure
Answer(status, body) == [answered |-> TRUE, status |-> status, body |-> body]

NoAnswer == [answered |-> FALSE, status |-> 0, body |-> JsonNull]

\* answers to requests whose body the client does not read
StatusAnswers == {Answer(s, JsonNull) : s \in StatusCodes} \cup {NoAnswer}

\* a small answer set for runs that explore the configuration space
FewAnswers == {Answer(200, JsonNull), Answer(404, JsonNull), NoAnswer}

(* --------------------------- book_client.py ---------------------------- *)

\* a lookup that consults SSL_CERT_FILE first
ca_bundle_cert_first(env) == PyOr(env.SSL_CERT_FILE, env.REQUESTS_CA_BUNDLE)

\* ca_bundle = os.getenv("REQUESTS_CA_BUNDLE") or os.getenv("SSL_CERT_FILE")
ca_bundle(env) == PyOr(env.REQUESTS_CA_BUNDLE, env.SSL_CERT_FILE)

\* the value __init__ assigns to self.session.verify
session_verify(env) ==
    IF Truthy(ca_bundle(env)) THEN VerifyBundle(ca_bundle(env).val) ELSE VerifyFalse

\* self.session = session if session is not None else requests.Session()
session_of(c, injected) == IF injected THEN InjectedSession ELSE DefaultSession(c)

\* the handle the operations issue their request through: the module-level
\* requests functions, whatever self.session is
transport(client) == RequestsApi

\* BookClient._url(path)
url_of(client, path) == client.url_base \o <<"/">> \o lstrip(path)

BooksPath == <<"/", "api", "/", "v1", "/", "Books">>

BookPath(book_id) == BooksPath \o <<"/", ToString(book_id)>>

SchemaPath == <<"/", "swagger", "/", "v1", "/", "swagger.json">>

\* Response.raise_for_status(): TRUE when it raises HTTPError
raise_for_status(status) == status >= 400 /\ status < 600

\* what a call hands back: a Response (with its status code), a list of ids,
\* a dict, or nothing
Ret(kind, status, ids, mapping) ==
    [kind |-> kind, status |-> status, ids |-> ids, mapping |-> mapping]

NoRet == Ret("None", 0, <<>>, "")

ResponseRet(ans) == Ret("Response", ans.status, <<>>, "")

Return(ret) == [raised |-> "none", ret |-> ret]

Raise(exc) == [raised |-> exc, ret |-> NoRet]

\* requests.<method>(url); response.raise_for_status(); return response
send_and_check(ans) ==
    IF ~ans.answered THEN Raise("ConnectionError")
    ELSE IF raise_for_status(ans.status) THEN Raise("HTTPError")
    ELSE Return(ResponseRet(ans))

\* requests.<method>(url); return response
send_unchecked(ans) ==
    IF ~ans.answered THEN Raise("ConnectionError") ELSE Return(ResponseRet(ans))

\* list_books without its raise_for_status() line
list_books_unchecked(ans) == send_unchecked(ans)

list_books(ans) == send_and_check(ans)

\* get_book with its raise_for_status() line in force
get_book_checked(book_id, ans) == send_and_check(ans)

get_book(book_id, ans) == send_unchecked(ans)

\* payload = book_data if isinstance(book_data, dict) else book_data
create_book(book_data, ans) == send_unchecked(ans)

\* update_book without its raise_for_status() line
update_book_unchecked(book_id, book_data, ans) == send_unchecked(ans)

update_book(book_id, book_data, ans) == send_and_check(ans)

delete_book(book_id, ans) == send_and_check(ans)

get_schema(ans) == send_and_check(ans)

\* attribute lookup  obj.get : only a dict has it, a Response does not
HasGet(ret) == ret.kind = "dict"

\* schema.get("definitions", {}).get("Book", {}) on a dict-shaped document
book_definition(doc) == IF doc.defs = "Book" THEN "BookSchema" ELSE "{}"

get_book_schema(ans) ==
    LET schema == get_schema(ans)
    IN  IF schema.raised # "none" THEN schema
        ELSE IF ~HasGet(schema.ret) THEN Raise("AttributeError")
        ELSE Return(Ret("dict", 0, <<>>, book_definition(ans.body)))

\* book["id"] on one element of the list
SubscriptError(e) ==
    IF e.kind # "object" THEN "TypeError" ELSE IF ~e.hasId THEN "KeyError" ELSE "none"

BadIndexes(items) == {i \in 1..Len(items) : SubscriptError(items[i]) # "none"}

FirstBad(items) == CHOOSE i \in BadIndexes(items) : \A j \in BadIndexes(items) : i <= j

\* a comprehension that walks the list backwards
ids_reversed(items) == [i \in 1..Len(items) |-> items[Len(items) + 1 - i].id]

\* [book["id"] for book in books]
ids_of(items) == [i \in 1..Len(items) |-> items[i].id]

get_existing_book_ids(ans) ==
    LET response == list_books(ans)
        body == ans.body
    IN  IF response.raised # "none" THEN response
        ELSE IF raise_for_status(ans.status) THEN Raise("HTTPError")
        ELSE IF body.type = "invalid" THEN Raise("JSONDecodeError")
        ELSE IF body.type # "list" THEN Return(Ret("list", 0, <<>>, ""))
        ELSE IF BadIndexes(body.items) # {}
             THEN Raise(SubscriptError(body.items[FirstBad(body.items)]))
        ELSE Return(Ret("list", 0, ids_of(body.items), ""))

\* BookClient.build_valid_book_data(random_book_id); JSON scalars as text
build_valid_book_data(random_book_id) ==
    [id |-> ToString(random_book_id),
     title |-> "Creating valid book randomic" \o ToString(random_book_id),
     description |-> "Default Description for create book " \o ToString(random_book_id),
     pageCount |-> "100"]

\* the payload of test_create_invalid_book
InvalidPayload ==
    [id |-> "\"non-integer\"", title |-> "\"\"", description |-> "123", pageCount |-> "-50"]

NoPayload == [id |-> "", title |-> "", description |-> "", pageCount |-> ""]

Payloads == {build_valid_book_data(i) : i \in Ids} \cup {InvalidPayload}

(* ------------------------------- state --------------------------------- *)

Environ(url, ca, cert) ==
    [CLIENT_API_URL_BASE |-> url, REQUESTS_CA_BUNDLE |-> ca, SSL_CERT_FILE |-> cert]

\* every value of the three environment variables
Environs == {Environ(u, a, b) : u \in OptUrls, a \in OptPaths, b \in OptPaths}

\* no variable set: the environment the test harness runs in by default
BareEnviron == Environ(NoneUrl, NonePath, NonePath)

NoClient == [made |-> FALSE, url_base |-> <<>>, session |-> ""]

\* the latest call: its inputs, the request it issued, the server's answer and
\* what the caller got
NoCall ==
    [op |-> "none", client |-> 0, url_arg |-> NoneUrl, injected |-> FALSE,
     book_id |-> 0, payload |-> NoPayload, sent |-> FALSE, method |-> "",
     via |-> "", url |-> <<>>, ans |-> NoAnswer, raised |-> "none", ret |-> NoRet]

InitCall(c, url_base, injected) ==
    [NoCall EXCEPT !.op = "__init__", !.client = c, !.url_arg = url_base,
                   !.injected = injected]

Call(op, c, book_id, payload, method, url, ans, outcome) ==
    [op |-> op, client |-> c, url_arg |-> NoneUrl, injected |-> FALSE,
     book_id |-> book_id, payload |-> payload, sent |-> TRUE, method |-> method,
     via |-> transport(clients[c]), url |-> url, ans |-> ans,
     raised |-> outcome.raised, ret |-> outcome.ret]

InitIn(envs, catalogues) ==
    /\ environ \in envs
    /\ books \in catalogues
    /\ sessions = [s \in SessionIds |-> VerifyTrue]
    /\ clients = [c \in ClientIds |-> NoClient]
    /\ last = NoCall

(* ------------------------------ actions -------------------------------- *)

\* BookClient(url_base, session)
BookClient_init(c, url_base, injected) ==
    /\ ~clients[c].made
    /\ clients' = [clients EXCEPT ![c] =
                      [made |-> TRUE, url_base |-> from_env(url_base, environ),
                       session |-> session_of(c, injected)]]
    /\ sessions' = [sessions EXCEPT ![session_of(c, injected)] = session_verify(environ)]
    /\ last' = InitCall(c, url_base, injected)
    /\ UNCHANGED <<environ, books>>

ListBooks(c, answers) ==
    /\ clients[c].made
    /\ ~last.sent
    /\ \E ans \in answers :
          last' = Call("list_books", c, 0, NoPayload, "GET",
                       url_of(clients[c], BooksPath), ans, list_books(ans))
    /\ UNCHANGED <<environ, books, sessions, clients>>

GetBook(c, ids, answers) ==
    /\ clients[c].made
    /\ ~last.sent
    /\ \E book_id \in ids, ans \in answers :
          last' = Call("get_book", c, book_id, NoPayload, "GET",
                       clients[c].url_base \o BookPath(book_id), ans,
                       get_book(book_id, ans))
    /\ UNCHANGED <<environ, books, sessions, clients>>

CreateBook(c, payloads, answers) ==
    /\ clients[c].made
    /\ ~last.sent
    /\ \E book_data \in payloads, ans \in answers :
          last' = Call("create_book", c, 0, book_data, "POST",
                       clients[c].url_base \o BooksPath, ans,
                       create_book(book_data, ans))
    /\ UNCHANGED <<environ, books, sessions, clients>>

UpdateBook(c, ids, payloads, answers) ==
    /\ clients[c].made
    /\ ~last.sent
    /\ \E book_id \in ids, book_data \in payloads, ans \in answers :
          last' = Call("update_book", c, book_id, book_data, "PUT",
                       clients[c].url_base \o BookPath(book_id), ans,
                       update_book(book_id, book_data, ans))
    /\ UNCHANGED <<environ, books, sessions, clients>>

DeleteBook(c, ids, answers) ==
    /\ clients[c].made
    /\ ~last.sent
    /\ \E book_id \in ids, ans \in answers :
          last' = Call("delete_book", c, book_id, NoPayload, "DELETE",
                       url_of(clients[c], BookPath(book_id)), ans,
                       delete_book(book_id, ans))
    /\ UNCHANGED <<environ, books, sessions, clients>>

GetSchema(c, answers) ==
    /\ clients[c].made
    /\ ~last.sent
    /\ \E ans \in answers :
          last' = Call("get_schema", c, 0, NoPayload, "GET",
                       url_of(clients[c], SchemaPath), ans, get_schema(ans))
    /\ UNCHANGED <<environ, books, sessions, clients>>

GetBookSchema(c, answers) ==
    /\ clients[c].made
    /\ ~last.sent
    /\ \E ans \in answers :
          last' = Call("get_book_schema", c, 0, NoPayload, "GET",
                       url_of(clients[c], SchemaPath), ans, get_book_schema(ans))
    /\ UNCHANGED <<environ, books, sessions, clients>>

GetExistingBookIds(c, answers) ==
    /\ clients[c].made
    /\ ~last.sent
    /\ \E ans \in answers :
          last' = Call("get_existing_book_ids", c, 0, NoPayload, "GET",
                       url_of(clients[c], BooksPath), ans, get_existing_book_ids(ans))
    /\ UNCHANGED <<environ, books, sessions, clients>>

\* the caller is done with the result of the latest call (a test function
\* ends) and is free to make the next one
Finish ==
    /\ last.sent
    /\ last' = NoCall
    /\ UNCHANGED <<environ, books, sessions, clients>>

\* the process environment changes between two constructions:
\* os.environ[name] = value, or del os.environ[name]
SetEnv(name, value) ==
    /\ ~last.sent
    /\ environ[name] # value
    /\ environ' = [environ EXCEPT ![name] = value]
    /\ last' = [NoCall EXCEPT !.op = "environ"]
    /\ UNCHANGED <<books, sessions, clients>>

(* --------------------------- specifications ---------------------------- *)

\* answers whose body the caller goes on to read
ListAnswers ==
    {Answer(s, b) : s \in StatusCodes, b \in ListBodies \cup NonListBodies \cup {NotJson}}
        \cup {NoAnswer}

SchemaAnswers == {Answer(s, b) : s \in StatusCodes, b \in SchemaBodies} \cup {NoAnswer}

\* explicit base-URL arguments of the operations run: none, and one that
\* ends in a slash
FewArgs == {NoneUrl, SomeUrl(<<"a", "/">>)}

\* The operations of one client against every answer of the server, in the
\* bare environment.
Init == InitIn({BareEnviron}, SUBSET Ids)

Next ==
    \E c \in {1} :
        \/ \E url_base \in FewArgs, injected \in BOOLEAN : BookClient_init(c, url_base, injected)
        \/ ListBooks(c, StatusAnswers)
        \/ GetBook(c, Ids, StatusAnswers)
        \/ CreateBook(c, Payloads, StatusAnswers)
        \/ UpdateBook(c, Ids, Payloads, StatusAnswers)
        \/ DeleteBook(c, Ids, StatusAnswers)
        \/ GetSchema(c, StatusAnswers)
        \/ GetBookSchema(c, SchemaAnswers)
        \/ GetExistingBookIds(c, ListAnswers)
        \/ Finish

Spec == Init /\ [][Next]_vars

\* Construction under every environment and every explicit argument, followed
\* by the operations against a few answers.
InitConfig == InitIn(Environs, {{}})

NextConfig ==
    \E c \in {1} :
        \/ \E url_base \in OptUrls, injected \in BOOLEAN : BookClient_init(c, url_base, injected)
        \/ ListBooks(c, FewAnswers)
        \/ GetBook(c, {1}, FewAnswers)
        \/ CreateBook(c, {InvalidPayload}, FewAnswers)
        \/ UpdateBook(c, {1}, {InvalidPayload}, FewAnswers)
        \/ DeleteBook(c, {1}, FewAnswers)
        \/ GetSchema(c, FewAnswers)
        \/ GetBookSchema(c, FewAnswers)
        \/ GetExistingBookIds(c, FewAnswers)
        \/ Finish

SpecConfig == InitConfig /\ [][NextConfig]_vars

\* Two clients, each over the injected session or over one of its own, built
\* at any moments of a process whose CA-bundle variables change; no explicit
\* base URL, CLIENT_API_URL_BASE unset.
InitShared == InitIn({Environ(NoneUrl, a, b) : a \in OptPaths, b \in OptPaths}, {{}})

NextShared ==
    \/ \E name \in {"REQUESTS_CA_BUNDLE", "SSL_CERT_FILE"}, value \in OptPaths :
          SetEnv(name, value)
    \/ \E c \in ClientIds :
          \/ \E injected \in BOOLEAN : BookClient_init(c, NoneUrl, injected)
          \/ ListBooks(c, FewAnswers)
          \/ GetBook(c, {1}, FewAnswers)
          \/ CreateBook(c, {InvalidPayload}, FewAnswers)
          \/ UpdateBook(c, {1}, {InvalidPayload}, FewAnswers)
          \/ DeleteBook(c, {1}, FewAnswers)
          \/ GetSchema(c, FewAnswers)
          \/ GetBookSchema(c, FewAnswers)
          \/ GetExistingBookIds(c, FewAnswers)
          \/ Finish

SpecShared == InitShared /\ [][NextShared]_vars

(* ------------------------------- claims -------------------------------- *)

Answered == last.sent /\ last.ans.answered

\* the caller got the server's response back, with the status it carried
ReturnedResponse ==
    last.raised = "none" /\ last.ret.kind = "Response" /\ last.ret.status = last.ans.status

RaisedHttpError == last.raised = "HTTPError" /\ last.ret = NoRet

IsErrorStatus(status) == status \in 400..599

IsSuccessStatus(status) == status \in 200..399

\* C1: update_book and delete_book on an id the server does not have return
\* the response (status among 200, 201, 400, 404 for update and 200, 204, 404
\* for delete) and never raise because of the status.
C1_MissingIdNeverRaises ==
    /\ (last.op = "update_book" /\ Answered /\ last.book_id \notin books
          /\ last.ans.status \in {200, 201, 400, 404}) => ReturnedResponse
    /\ (last.op = "delete_book" /\ Answered /\ last.book_id \notin books
          /\ last.ans.status \in {200, 204, 404}) => ReturnedResponse

C3_ListBooksReturnsEveryStatus ==
    last.op = "list_books" =>
        /\ Answered => ReturnedResponse
        /\ last.raised # "none" => ~last.ans.answered

\* C3 amended: list_books returns the response on a status below 400 and
\* raises an HTTP-status error on 4xx and 5xx; a transport error propagates.
C3_ListBooksRaisesOnErrorStatus ==
    last.op = "list_books" =>
        /\ (Answered /\ ~IsErrorStatus(last.ans.status)) => ReturnedResponse
        /\ (Answered /\ IsErrorStatus(last.ans.status)) => RaisedHttpError
        /\ ~last.ans.answered => last.raised = "ConnectionError"

C3_Witness ==
    last.op = "list_books" /\ Answered /\ last.ans.status = 404 /\ RaisedHttpError

\* C4: get_book and create_book never raise on an HTTP error status: every
\* id and payload is sent, and any answer, 4xx and 5xx included, comes back as
\* a response carrying that status.
C4_GetCreateReturnEveryStatus ==
    last.op \in {"get_book", "create_book"} =>
        /\ last.sent
        /\ last.ans.answered => ReturnedResponse
        /\ last.raised # "none" => (~last.ans.answered /\ last.raised = "ConnectionError")

C4_Witness ==
    /\ last.op = "create_book" /\ last.payload = InvalidPayload
    /\ Answered /\ last.ans.status = 400 /\ ReturnedResponse

\* C5: every request of every operation goes through the client's transport
\* handle (the injected session, else the default one made at construction),
\* hence under the verification mode set on that handle.
C5_RequestsUseClientSession ==
    last.sent =>
        /\ last.via = clients[last.client].session
        /\ last.via \in SessionIds

\* the client whose constructor ran last, and the verify value of its session
Built == clients[last.client]

BuiltVerify == sessions[Built.session]

JustBuilt == last.op = "__init__"

\* the environment variables that name a CA bundle file that exists
ExistingBundles ==
    {v \in {environ.REQUESTS_CA_BUNDLE, environ.SSL_CERT_FILE} :
        v.some /\ v.val \in ExistingPaths}

\* C6 as stated: at construction, if either variable names an existing CA
\* bundle the transport verifies with that bundle; otherwise (unset, empty or
\* naming a missing path) verification is disabled.
C6_VerifyOnlyExistingBundle ==
    JustBuilt =>
        IF ExistingBundles # {}
        THEN \E v \in ExistingBundles : BuiltVerify = VerifyBundle(v.val)
        ELSE BuiltVerify = VerifyFalse

\* C6 amended: at construction the transport verifies with the value of
\* REQUESTS_CA_BUNDLE when that is set and non-empty, else with the value of
\* SSL_CERT_FILE when that is set and non-empty, whether or not the path
\* exists; verification is disabled only when both are unset or empty.
C6_VerifyFirstNonEmptyVariable ==
    JustBuilt =>
        BuiltVerify =
            IF environ.REQUESTS_CA_BUNDLE.some /\ environ.REQUESTS_CA_BUNDLE.val # ""
            THEN [check |-> TRUE, bundle |-> environ.REQUESTS_CA_BUNDLE.val]
            ELSE IF environ.SSL_CERT_FILE.some /\ environ.SSL_CERT_FILE.val # ""
            THEN [check |-> TRUE, bundle |-> environ.SSL_CERT_FILE.val]
            ELSE [check |-> FALSE, bundle |-> ""]

C6_Witness ==
    /\ JustBuilt
    /\ environ.REQUESTS_CA_BUNDLE = SomePath("/missing.pem")
    /\ environ.SSL_CERT_FILE = SomePath("/etc/ca.pem")
    /\ BuiltVerify = VerifyBundle("/missing.pem")

\* the base URL the precedence rule of the claim selects, normalised
Stripped(s) == CHOOSE t \in {SubSeq(s, 1, k) : k \in 0..Len(s)} :
    /\ ~EndsWithSlash(t)
    /\ \A i \in Len(t) + 1..Len(s) : s[i] = "/"

EnvOrDefault ==
    IF environ.CLIENT_API_URL_BASE.some
    THEN environ.CLIENT_API_URL_BASE.val ELSE DefaultUrlBase

\* C7 as stated: a non-empty explicit argument is used; an absent or empty one
\* gives way to CLIENT_API_URL_BASE if set, else to the default base URL.
C7_EmptyArgumentFallsBack ==
    JustBuilt =>
        Built.url_base =
            Stripped(IF last.url_arg.some /\ last.url_arg.val # <<>>
                     THEN last.url_arg.val ELSE EnvOrDefault)

\* C7 amended: an explicit argument that is given is used, the empty string
\* included; only an absent argument (None) gives way to CLIENT_API_URL_BASE
\* if set, else to the default base URL.
C7_GivenArgumentWins ==
    JustBuilt =>
        Built.url_base =
            Stripped(IF last.url_arg.some THEN last.url_arg.val ELSE EnvOrDefault)

C7_Witness ==
    /\ JustBuilt
    /\ last.url_arg = SomeUrl(<<>>)
    /\ environ.CLIENT_API_URL_BASE = SomeUrl(<<"a">>)
    /\ Built.url_base = <<>>

NoTrailingSlash == \A c \in ClientIds : clients[c].made => ~EndsWithSlash(clients[c].url_base)

ConfigKept == \A c \in ClientIds : clients[c].made => clients'[c] = clients[c]

\* C8: for every argument and environment value, ending in one or several
\* slashes included, the stored base URL does not end with a slash, and no
\* later operation changes the configuration's base URL.
C8_BaseUrlNeverEndsWithSlash == []NoTrailingSlash /\ [][ConfigKept]_vars

C8_Witness ==
    /\ JustBuilt
    /\ last.url_arg = SomeUrl(<<"a", "/", "/">>)
    /\ Built.url_base = <<"a">>

RECURSIVE RecordIds(_)
\* the ids of the records of a JSON list, in the order the list has them
RecordIds(items) ==
    IF items = <<>> THEN <<>>
    ELSE IF items[1].kind = "object" /\ items[1].hasId
         THEN <<items[1].id>> \o RecordIds(Tail(items))
         ELSE RecordIds(Tail(items))

AllRecords(items) == \A i \in 1..Len(items) : items[i].kind = "object" /\ items[i].hasId

ListCall == last.op = "get_existing_book_ids"

ReturnedIds(ids) == last.raised = "none" /\ last.ret.kind = "list" /\ last.ret.ids = ids

\* C9 as stated: get_existing_book_ids returns the ids of the records of the
\* list endpoint's JSON body, in the body's order, when the body is a list, and
\* the empty sequence when the body is any other JSON value.
C9_IdsOfListElseEmpty ==
    (ListCall /\ Answered /\ last.ans.body.type # "invalid") =>
        IF last.ans.body.type # "list" THEN ReturnedIds(<<>>)
        ELSE AllRecords(last.ans.body.items) =>
                ReturnedIds(RecordIds(last.ans.body.items))

\* C9 amended: when the list request is answered with a status below 400,
\* get_existing_book_ids returns the ids in the body's order if the body is a
\* list whose elements are all objects with an id, and the empty sequence if
\* the body is a JSON value that is not a list; on a 4xx or 5xx status it
\* raises the HTTP-status error, and on a list with an element that is not an
\* object with an id it raises as well.
C9_IdsWhenListRequestSucceeds ==
    (ListCall /\ Answered /\ last.ans.body.type # "invalid") =>
        /\ IsErrorStatus(last.ans.status) => RaisedHttpError
        /\ ~IsErrorStatus(last.ans.status) =>
              IF last.ans.body.type # "list" THEN ReturnedIds(<<>>)
              ELSE IF AllRecords(last.ans.body.items)
                   THEN ReturnedIds(RecordIds(last.ans.body.items))
                   ELSE last.raised \in {"KeyError", "TypeError"}

C9_Witness ==
    /\ ListCall /\ Answered /\ last.ans.status = 200
    /\ last.ans.body.type = "list"
    /\ Len(last.ans.body.items) = 2
    /\ ReturnedIds(<<2, 1>>)

\* C10: whenever get_schema succeeds, get_book_schema returns a mapping: the
\* Book definition of the schema document when it has one, the empty mapping
\* when it has none; it fails in neither case.
C10_BookSchemaIsMapping ==
    (last.op = "get_book_schema" /\ Answered /\ ~IsErrorStatus(last.ans.status)) =>
        /\ last.raised = "none"
        /\ last.ret.kind = "dict"
        /\ last.ret.mapping = IF last.ans.body.defs = "Book" THEN "BookSchema" ELSE "{}"

\* the verify value on the session of every constructed client is the same
\* after the step as before it
VerifyKept ==
    \A c \in ClientIds :
        clients[c].made => sessions'[clients[c].session] = sessions[clients[c].session]

\* C11: the verification mode a client set on its transport handle at
\* construction stays the same for the client's whole lifetime: no client
\* operation changes it, and neither does the construction of a second client
\* over the same injected handle under other values of REQUESTS_CA_BUNDLE /
\* SSL_CERT_FILE.
C11_VerifyModeKept == [][VerifyKept]_vars

====
